---- MODULE Spec2Model ----
(***************************************************************************)
(* Group-based rate limit filter                                           *)
(* (examples/filters/rate_limit_filter_pipeline.py, class Pipeline).       *)
(*                                                                         *)
(* Time is counted in whole seconds.  Every call of time.time() reads the  *)
(* variable clock; the clock may advance between two reads of one inlet    *)
(* call, so an inlet call is a sequence of steps with one clock read each. *)
(* inlet is a coroutine without any await expression: once the event loop  *)
(* runs it, no other coroutine runs until it returns or raises.            *)
(***************************************************************************)
EXTENDS Integers, Sequences, FiniteSets, TLC

VARIABLES valves, user_requests, clock, tasks

vars == <<valves, user_requests, clock, tasks>>

(***************************************************************************)
(* Bounds                                                                  *)
(***************************************************************************)
\* largest configured request limit
MaxLimit == 2

\* inlet is called while at most this many timestamps are stored
MaxStored == 2

\* longest history a pruning run starts from
MaxHistory == 2

\* the instants at which the clock is read
Instants == {0, 1, 60, 900, 3600}

\* number of coroutines that can be in flight
Tasks == {1, 2}

(***************************************************************************)
(* Values                                                                  *)
(***************************************************************************)
\* Python None in an Optional[int] field
None == -1

\* a key that is missing from the user dict
NoKey == "<missing>"

MinuteSeconds == 60

HourSeconds == 3600

SecondsPerMinute == 60

Limits == {None} \cup (1..MaxLimit)

WindowMinutes == {None, 15}

Policies ==
    [requests_per_minute : Limits,
     requests_per_hour : Limits,
     sliding_window_limit : Limits,
     sliding_window_minutes : WindowMinutes]

\* Silver and Gold plans: the source defaults 20/300/100/15 and 40/1000/200/15
\* (each one an environment setting) scaled to the bounds of the model
SilverValves ==
    [requests_per_minute |-> 1,
     requests_per_hour |-> 2,
     sliding_window_limit |-> 2,
     sliding_window_minutes |-> 15]

GoldValves ==
    [requests_per_minute |-> 2,
     requests_per_hour |-> 2,
     sliding_window_limit |-> 2,
     sliding_window_minutes |-> 15]

ValvesSet ==
    {[default |-> d, silver |-> SilverValves, gold |-> GoldValves] : d \in Policies}

GroupSets == {{}, {"Silver"}, {"Gold"}, {"Silver", "Gold"}, {"Other"}}

\* user: Optional[dict]; present = FALSE is user None, has_groups = FALSE is
\* a dict without the key "groups", id / role = NoKey a dict without that key
NoUser ==
    [present |-> FALSE, id |-> NoKey, role |-> NoKey,
     has_groups |-> FALSE, groups |-> {}]

Users ==
    {NoUser} \cup
    {[present |-> TRUE, id |-> "u1", role |-> "user", has_groups |-> TRUE, groups |-> g] :
        g \in GroupSets} \cup
    {[present |-> TRUE, id |-> "u1", role |-> NoKey, has_groups |-> FALSE, groups |-> {}],
     [present |-> TRUE, id |-> NoKey, role |-> "user", has_groups |-> TRUE, groups |-> {"Silver"}],
     [present |-> TRUE, id |-> "u1", role |-> "admin", has_groups |-> TRUE, groups |-> {"Gold"}],
     [present |-> TRUE, id |-> NoKey, role |-> "admin", has_groups |-> FALSE, groups |-> {}]}

Keys == {"u1", "default_user"}

(***************************************************************************)
(* Policy resolver                                                         *)
(***************************************************************************)
HasGroups(user) == user.present /\ user.has_groups /\ user.groups # {}

\* get_user_limits with the Silver test placed after the Gold test
get_user_limits_silver_last(v, user) ==
    LET limits0 == v.default
        limits1 == IF HasGroups(user) /\ "Gold" \in user.groups
                   THEN v.gold ELSE limits0
        limits2 == IF HasGroups(user) /\ "Silver" \in user.groups
                   THEN v.silver ELSE limits1
    IN limits2

get_user_limits(v, user) ==
    LET limits0 == v.default
        limits1 == IF HasGroups(user) /\ "Silver" \in user.groups
                   THEN v.silver ELSE limits0
        limits2 == IF HasGroups(user) /\ "Gold" \in user.groups
                   THEN v.gold ELSE limits1
    IN limits2

get_user_group(user) ==
    IF ~HasGroups(user) THEN "Default"
    ELSE IF "Gold" \in user.groups THEN "Gold"
    ELSE IF "Silver" \in user.groups THEN "Silver"
    ELSE "Default"

\* the admin test comparing the role with a value no user carries
IsAdminNever(user) == user.present /\ user.role = "administrator"

IsAdmin(user) == user.present /\ user.role = "admin"

UserId(user) == IF user.present /\ user.id # NoKey THEN user.id ELSE "default_user"

(***************************************************************************)
(* Limiter engine: pure parts                                              *)
(***************************************************************************)
History(reqs, user_id) == IF user_id \in DOMAIN reqs THEN reqs[user_id] ELSE <<>>

RECURSIVE CountWithin(_, _, _)

\* the count with now - req <= window
CountWithinInclusive(user_reqs, now, window) ==
    IF user_reqs = <<>> THEN 0
    ELSE (IF now - Head(user_reqs) <= window THEN 1 ELSE 0)
         + CountWithin(Tail(user_reqs), now, window)

\* sum(1 for req in user_reqs if now - req < window)
CountWithin(user_reqs, now, window) ==
    IF user_reqs = <<>> THEN 0
    ELSE (IF now - Head(user_reqs) < window THEN 1 ELSE 0)
         + CountWithin(Tail(user_reqs), now, window)

\* the filter keeping every timestamp when no threshold is configured
PruneTestKeepUnlimited(req, limits, now) ==
    IF /\ limits.requests_per_minute = None
       /\ limits.requests_per_hour = None
       /\ limits.sliding_window_limit = None
    THEN "keep"
    ELSE IF limits.requests_per_minute # None /\ now - req < MinuteSeconds THEN "keep"
    ELSE IF limits.requests_per_hour # None /\ now - req < HourSeconds THEN "keep"
    ELSE IF limits.sliding_window_limit = None THEN "drop"
    ELSE IF limits.sliding_window_minutes = None THEN "TypeError"
    ELSE IF now - req < limits.sliding_window_minutes * SecondsPerMinute THEN "keep"
    ELSE "drop"

\* the filter with now - req <= window
PruneTestInclusive(req, limits, now) ==
    IF limits.requests_per_minute # None /\ now - req <= MinuteSeconds THEN "keep"
    ELSE IF limits.requests_per_hour # None /\ now - req <= HourSeconds THEN "keep"
    ELSE IF limits.sliding_window_limit = None THEN "drop"
    ELSE IF limits.sliding_window_minutes = None THEN "TypeError"
    ELSE IF now - req <= limits.sliding_window_minutes * SecondsPerMinute THEN "keep"
    ELSE "drop"

\* the filter condition of prune_requests for one timestamp:
\* "keep", "drop", or "TypeError" when None * 60 is evaluated
PruneTest(req, limits, now) ==
    IF limits.requests_per_minute # None /\ now - req < MinuteSeconds THEN "keep"
    ELSE IF limits.requests_per_hour # None /\ now - req < HourSeconds THEN "keep"
    ELSE IF limits.sliding_window_limit = None THEN "drop"
    ELSE IF limits.sliding_window_minutes = None THEN "TypeError"
    ELSE IF now - req < limits.sliding_window_minutes * SecondsPerMinute THEN "keep"
    ELSE "drop"

\* the comprehension losing the first timestamp it keeps
PruneListSkipFirst(user_reqs, limits, now) ==
    LET kept == SelectSeq(user_reqs, LAMBDA req : PruneTest(req, limits, now) = "keep")
    IN IF kept = <<>> THEN <<>> ELSE Tail(kept)

RECURSIVE PruneList(_, _, _)
PruneList(user_reqs, limits, now) ==
    IF user_reqs = <<>> THEN <<>>
    ELSE IF PruneTest(Head(user_reqs), limits, now) = "keep"
         THEN <<Head(user_reqs)>> \o PruneList(Tail(user_reqs), limits, now)
         ELSE PruneList(Tail(user_reqs), limits, now)

PruneRaises(reqs, user_id, limits, now) ==
    /\ user_id \in DOMAIN reqs
    /\ \E i \in 1..Len(reqs[user_id]) : PruneTest(reqs[user_id][i], limits, now) = "TypeError"

\* prune_requests filtering the history of every user with the caller's limits
prune_every_user(reqs, user_id, limits, now) ==
    IF user_id \notin DOMAIN reqs \/ PruneRaises(reqs, user_id, limits, now)
    THEN reqs
    ELSE [k \in DOMAIN reqs |->
             SelectSeq(reqs[k], LAMBDA req : PruneTest(req, limits, now) = "keep")]

\* the history map after prune_requests(user_id, limits) read the clock as now;
\* the assignment is not reached when the comprehension raises
prune_requests(reqs, user_id, limits, now) ==
    IF user_id \notin DOMAIN reqs \/ PruneRaises(reqs, user_id, limits, now)
    THEN reqs
    ELSE [reqs EXCEPT ![user_id] = PruneList(reqs[user_id], limits, now)]

\* log_request inserting the timestamp at the front of the list
log_request_front(reqs, user_id, now) ==
    [k \in DOMAIN reqs \cup {user_id} |->
        IF k = user_id THEN <<now>> \o History(reqs, user_id) ELSE reqs[k]]

log_request(reqs, user_id, now) ==
    [k \in DOMAIN reqs \cup {user_id} |->
        IF k = user_id THEN Append(History(reqs, user_id), now) ELSE reqs[k]]

\* rate_limited comparing with > instead of >=
EvaluateStrict(user_reqs, limits, now) ==
    IF /\ limits.requests_per_minute # None
       /\ CountWithin(user_reqs, now, MinuteSeconds) > limits.requests_per_minute
    THEN "limited"
    ELSE IF /\ limits.requests_per_hour # None
            /\ CountWithin(user_reqs, now, HourSeconds) > limits.requests_per_hour
    THEN "limited"
    ELSE IF limits.sliding_window_limit = None THEN "allowed"
    ELSE IF limits.sliding_window_minutes = None THEN "TypeError"
    ELSE IF CountWithin(user_reqs, now, limits.sliding_window_minutes * SecondsPerMinute)
               > limits.sliding_window_limit
    THEN "limited"
    ELSE "allowed"

\* rate_limited taking an absent requests_per_hour for a limit of 0
EvaluateAbsentIsZero(user_reqs, limits, now) ==
    IF /\ limits.requests_per_minute # None
       /\ CountWithin(user_reqs, now, MinuteSeconds) >= limits.requests_per_minute
    THEN "limited"
    ELSE IF CountWithin(user_reqs, now, HourSeconds) >=
               (IF limits.requests_per_hour = None THEN 0 ELSE limits.requests_per_hour)
    THEN "limited"
    ELSE IF limits.sliding_window_limit = None THEN "allowed"
    ELSE IF limits.sliding_window_minutes = None THEN "TypeError"
    ELSE IF CountWithin(user_reqs, now, limits.sliding_window_minutes * SecondsPerMinute)
               >= limits.sliding_window_limit
    THEN "limited"
    ELSE "allowed"

\* rate_limited counting the whole retained history for the sliding window
EvaluateWholeHistory(user_reqs, limits, now) ==
    IF /\ limits.requests_per_minute # None
       /\ CountWithin(user_reqs, now, MinuteSeconds) >= limits.requests_per_minute
    THEN "limited"
    ELSE IF /\ limits.requests_per_hour # None
            /\ CountWithin(user_reqs, now, HourSeconds) >= limits.requests_per_hour
    THEN "limited"
    ELSE IF limits.sliding_window_limit = None THEN "allowed"
    ELSE IF limits.sliding_window_minutes = None THEN "TypeError"
    ELSE IF Len(user_reqs) >= limits.sliding_window_limit
    THEN "limited"
    ELSE "allowed"

\* the part of rate_limited after the prune: "limited", "allowed" or "TypeError"
Evaluate(user_reqs, limits, now) ==
    IF /\ limits.requests_per_minute # None
       /\ CountWithin(user_reqs, now, MinuteSeconds) >= limits.requests_per_minute
    THEN "limited"
    ELSE IF /\ limits.requests_per_hour # None
            /\ CountWithin(user_reqs, now, HourSeconds) >= limits.requests_per_hour
    THEN "limited"
    ELSE IF limits.sliding_window_limit = None THEN "allowed"
    ELSE IF limits.sliding_window_minutes = None THEN "TypeError"
    ELSE IF CountWithin(user_reqs, now, limits.sliding_window_minutes * SecondsPerMinute)
               >= limits.sliding_window_limit
    THEN "limited"
    ELSE "allowed"

SlidingName(minutes) == "sliding window (" \o ToString(minutes) \o " minutes)"

\* the returned string, or "TypeError" when an int is compared with None or
\* None is multiplied
check_which_limit_exceeded(user_reqs, limits, now) ==
    IF limits.requests_per_minute = None THEN "TypeError"
    ELSE IF CountWithin(user_reqs, now, MinuteSeconds) >= limits.requests_per_minute
    THEN "minute"
    ELSE IF limits.requests_per_hour = None THEN "TypeError"
    ELSE IF CountWithin(user_reqs, now, HourSeconds) >= limits.requests_per_hour
    THEN "hour"
    ELSE IF limits.sliding_window_minutes = None THEN "TypeError"
    ELSE IF limits.sliding_window_limit = None THEN "TypeError"
    ELSE IF CountWithin(user_reqs, now, limits.sliding_window_minutes * SecondsPerMinute)
               >= limits.sliding_window_limit
    THEN SlidingName(limits.sliding_window_minutes)
    ELSE "none"

WaitMessage(limit_type) ==
    "Usage limit reached: You've hit your " \o limit_type
        \o " request limit. Please wait until the limit resets."

UpgradeMessage(limit_type) ==
    "Usage limit reached: You've hit your " \o limit_type
        \o " request limit. Upgrade to continue now or wait until the limit resets."

ErrorMessage(current_group, limit_type) ==
    IF current_group = "Gold" THEN WaitMessage(limit_type) ELSE UpgradeMessage(limit_type)

(***************************************************************************)
(* Coroutines                                                              *)
(***************************************************************************)
\* pruned_at is the clock value prune_requests read, now the one rate_limited
\* read, before the history of the identity as prune_requests found it
IdleTask ==
    [pc |-> "idle", user |-> NoUser, user_id |-> NoKey, user_limits |-> SilverValves,
     now |-> 0, limited |-> "unset", ret |-> "none", current_group |-> "",
     limit_type |-> "", msg |-> "", pruned_at |-> 0, before |-> <<>>]

\* inlet awaiting something between rate_limited and log_request
AwaitsBeforeRecord(pc) == pc = "allowed"

\* inlet's body holds no await expression
AwaitsAt(pc) == FALSE

InBody(t) == tasks[t].pc \in {"pruned", "limited", "allowed"}

\* the event loop runs one coroutine at a time, up to its next await
MayRun(t) == \A s \in Tasks \ {t} : InBody(s) => AwaitsAt(tasks[s].pc)

RECURSIVE Stored(_)
\* number of timestamps in the whole history map
Stored(reqs) ==
    IF DOMAIN reqs = {} THEN 0
    ELSE LET k == CHOOSE x \in DOMAIN reqs : TRUE
         IN Len(reqs[k]) + Stored([j \in DOMAIN reqs \ {k} |-> reqs[j]])

Sequential == \A s \in Tasks : tasks[s].pc = "idle"

(***************************************************************************)
(* Initial state                                                           *)
(***************************************************************************)
Init ==
    /\ valves \in ValvesSet
    /\ user_requests = <<>>
    /\ clock = 0
    /\ tasks = [t \in Tasks |-> IdleTask]

(***************************************************************************)
(* Actions                                                                 *)
(***************************************************************************)
\* time passes; a finished call has handed over its result by then
Tick ==
    /\ \A t \in Tasks : tasks[t].pc # "done"
    /\ \E i \in Instants :
          /\ i > clock
          /\ \A j \in Instants : j > clock => i <= j
          /\ clock' = i
    /\ UNCHANGED <<valves, user_requests, tasks>>

\* inlet up to the end of prune_requests: admin short cut, user id, limits, prune
Enter(t, user) ==
    /\ MayRun(t)
    /\ LET user_id == UserId(user)
           user_limits == get_user_limits(valves, user)
           started == [IdleTask EXCEPT !.user = user]
       IN IF IsAdmin(user)
          THEN /\ tasks' = [tasks EXCEPT ![t] = [started EXCEPT !.pc = "done", !.ret = "body"]]
               /\ UNCHANGED user_requests
          ELSE IF PruneRaises(user_requests, user_id, user_limits, clock)
          THEN /\ tasks' = [tasks EXCEPT ![t] = [started EXCEPT !.pc = "done",
                                                                !.ret = "TypeError",
                                                                !.user_id = user_id,
                                                                !.user_limits = user_limits,
                                                                !.pruned_at = clock,
                                                                !.before = History(user_requests, user_id)]]
               /\ UNCHANGED user_requests
          ELSE /\ tasks' = [tasks EXCEPT ![t] = [started EXCEPT !.pc = "pruned",
                                                                !.user_id = user_id,
                                                                !.user_limits = user_limits,
                                                                !.pruned_at = clock,
                                                                !.before = History(user_requests, user_id)]]
               /\ user_requests' = prune_requests(user_requests, user_id, user_limits, clock)
    /\ UNCHANGED <<valves, clock>>

\* the framework awaits inlet(body, user), one call after the other
Inlet(t, user) ==
    /\ Sequential
    /\ Stored(user_requests) <= MaxStored
    /\ \A s \in Tasks : t <= s
    /\ Enter(t, user)

\* the caller has the result of a finished call
Return(t) ==
    /\ tasks[t].pc = "done"
    /\ tasks' = [tasks EXCEPT ![t] = IdleTask]
    /\ UNCHANGED <<valves, user_requests, clock>>

\* rate_limited after the prune
Decide(t) ==
    /\ tasks[t].pc = "pruned"
    /\ MayRun(t)
    /\ LET r == Evaluate(History(user_requests, tasks[t].user_id), tasks[t].user_limits, clock)
       IN tasks' = [tasks EXCEPT
                       ![t].now = clock,
                       ![t].limited = r,
                       ![t].pc = IF r = "TypeError" THEN "done" ELSE r,
                       ![t].ret = IF r = "TypeError" THEN "TypeError" ELSE "none"]
    /\ UNCHANGED <<valves, user_requests, clock>>

\* inlet logging the request before it raises
RejectAndLog(t) ==
    /\ tasks[t].pc = "limited"
    /\ MayRun(t)
    /\ LET current_group == get_user_group(tasks[t].user)
           limit_type == check_which_limit_exceeded(
                             History(user_requests, tasks[t].user_id),
                             tasks[t].user_limits, clock)
       IN IF limit_type = "TypeError"
          THEN tasks' = [tasks EXCEPT ![t].pc = "done", ![t].ret = "TypeError",
                                      ![t].current_group = current_group]
          ELSE tasks' = [tasks EXCEPT ![t].pc = "done", ![t].ret = "Exception",
                                      ![t].current_group = current_group,
                                      ![t].limit_type = limit_type,
                                      ![t].msg = ErrorMessage(current_group, limit_type)]
    /\ user_requests' = log_request(user_requests, tasks[t].user_id, clock)
    /\ UNCHANGED <<valves, clock>>

\* the branch of inlet that raises
Reject(t) ==
    /\ tasks[t].pc = "limited"
    /\ MayRun(t)
    /\ LET current_group == get_user_group(tasks[t].user)
           limit_type == check_which_limit_exceeded(
                             History(user_requests, tasks[t].user_id),
                             tasks[t].user_limits, clock)
       IN IF limit_type = "TypeError"
          THEN tasks' = [tasks EXCEPT ![t].pc = "done", ![t].ret = "TypeError",
                                      ![t].current_group = current_group]
          ELSE tasks' = [tasks EXCEPT ![t].pc = "done", ![t].ret = "Exception",
                                      ![t].current_group = current_group,
                                      ![t].limit_type = limit_type,
                                      ![t].msg = ErrorMessage(current_group, limit_type)]
    /\ UNCHANGED <<valves, user_requests, clock>>

\* log_request and return body
Record(t) ==
    /\ tasks[t].pc = "allowed"
    /\ MayRun(t)
    /\ user_requests' = log_request(user_requests, tasks[t].user_id, clock)
    /\ tasks' = [tasks EXCEPT ![t].pc = "done", ![t].ret = "body"]
    /\ UNCHANGED <<valves, clock>>

Next ==
    \/ Tick
    \/ \E t \in Tasks, user \in Users : Inlet(t, user)
    \/ \E t \in Tasks : Decide(t)
    \/ \E t \in Tasks : Reject(t)
    \/ \E t \in Tasks : Record(t)
    \/ \E t \in Tasks : Return(t)

Spec == Init /\ [][Next]_vars

(***************************************************************************)
(* Every call resolved to the default limits                               *)
(***************************************************************************)
\* a call of a user for whom get_user_limits returns the default limits, so
\* that each key of user_requests is only ever used with this one policy
InletDefaultLimits(t, user) ==
    /\ get_user_limits(valves, user) = valves.default
    /\ Inlet(t, user)

NextDefaultLimits ==
    \/ Tick
    \/ \E t \in Tasks, user \in Users : InletDefaultLimits(t, user)
    \/ \E t \in Tasks : Decide(t)
    \/ \E t \in Tasks : Reject(t)
    \/ \E t \in Tasks : Record(t)
    \/ \E t \in Tasks : Return(t)

SpecDefaultLimits == Init /\ [][NextDefaultLimits]_vars

(***************************************************************************)
(* Two calls for one identity, both scheduled at one instant               *)
(***************************************************************************)
\* a scheduled coroutine starts running
Begin(t) ==
    /\ tasks[t].pc = "pending"
    /\ Enter(t, tasks[t].user)

InitRace ==
    /\ valves \in ValvesSet
    /\ user_requests = <<>>
    /\ clock \in Instants
    /\ \E u1 \in Users, u2 \in Users :
          /\ UserId(u1) = UserId(u2)
          /\ tasks = [t \in Tasks |->
                        [IdleTask EXCEPT !.pc = "pending",
                                         !.user = IF t = 1 THEN u1 ELSE u2]]

NextRace ==
    \/ \E t \in Tasks : Begin(t)
    \/ \E t \in Tasks : Decide(t)
    \/ \E t \in Tasks : Reject(t)
    \/ \E t \in Tasks : Record(t)

SpecRace == InitRace /\ [][NextRace]_vars

(***************************************************************************)
(* prune_requests applied twice at one clock value                         *)
(***************************************************************************)
RECURSIVE SortedHistories(_, _)
\* the non-decreasing sequences of at most n instants, none after now
SortedHistories(n, now) ==
    IF n = 0 THEN {<<>>}
    ELSE LET shorter == SortedHistories(n - 1, now)
         IN shorter \cup
            UNION {{Append(h, i) : i \in {j \in Instants :
                                            /\ j <= now
                                            /\ h = <<>> \/ h[Len(h)] <= j}} :
                   h \in shorter}

InitPrune ==
    /\ valves \in ValvesSet
    /\ clock \in Instants
    /\ \E user \in Users :
          /\ tasks = [t \in Tasks |->
                        IF t = 1 THEN [IdleTask EXCEPT !.pc = "pending", !.user = user]
                        ELSE IdleTask]
          /\ \/ user_requests = <<>>
             \/ \E h \in SortedHistories(MaxHistory, clock) :
                   user_requests = [k \in {UserId(user)} |-> h]

\* prune_requests once more, for the same user and limits
PruneAgain(t) ==
    /\ tasks[t].pc = "pruned"
    /\ IF PruneRaises(user_requests, tasks[t].user_id, tasks[t].user_limits, clock)
       THEN /\ tasks' = [tasks EXCEPT ![t].pc = "done", ![t].ret = "TypeError"]
            /\ UNCHANGED user_requests
       ELSE /\ tasks' = [tasks EXCEPT ![t].pc = "repruned"]
            /\ user_requests' = prune_requests(user_requests, tasks[t].user_id,
                                                tasks[t].user_limits, clock)
    /\ UNCHANGED <<valves, clock>>

NextPrune ==
    \/ \E t \in Tasks : Begin(t)
    \/ \E t \in Tasks : PruneAgain(t)

SpecPrune == InitPrune /\ [][NextPrune]_vars

(***************************************************************************)
(* Vocabulary of the properties                                            *)
(***************************************************************************)
\* the history of the identity that call t is about
Hist(t) == History(user_requests, tasks[t].user_id)

\* rate_limited has returned and inlet has not gone on yet: the history is the
\* one the evaluation counted, tasks[t].now the clock value it read
Decided(t) == tasks[t].pc \in {"limited", "allowed"}

\* call t got past the admin short cut and resolved its limits
Resolved(t) ==
    \/ tasks[t].pc \in {"pruned", "repruned", "limited", "allowed"}
    \/ tasks[t].pc = "done" /\ ~(tasks[t].user.present /\ tasks[t].user.role = "admin")

\* timestamps of h less than window seconds before now
Recent(h, now, window) == Cardinality({i \in 1..Len(h) : now - h[i] < window})

MinuteSeen(t) == Recent(Hist(t), tasks[t].now, 60)

HourSeen(t) == Recent(Hist(t), tasks[t].now, 3600)

SlidingSeen(t) == Recent(Hist(t), tasks[t].now, tasks[t].user_limits.sliding_window_minutes * 60)

MinuteHit(t) ==
    /\ tasks[t].user_limits.requests_per_minute # None
    /\ MinuteSeen(t) >= tasks[t].user_limits.requests_per_minute

HourHit(t) ==
    /\ tasks[t].user_limits.requests_per_hour # None
    /\ HourSeen(t) >= tasks[t].user_limits.requests_per_hour

SlidingHit(t) ==
    /\ tasks[t].user_limits.sliding_window_limit # None
    /\ tasks[t].user_limits.sliding_window_minutes # None
    /\ SlidingSeen(t) >= tasks[t].user_limits.sliding_window_limit

AllAbsent(limits) ==
    /\ limits.requests_per_minute = None
    /\ limits.requests_per_hour = None
    /\ limits.sliding_window_limit = None

\* the groups a request carries, none when user or key is missing
GroupsOf(user) == IF user.present /\ user.has_groups THEN user.groups ELSE {}

TierOf(user) ==
    IF "Gold" \in GroupsOf(user) THEN "Gold"
    ELSE IF "Silver" \in GroupsOf(user) THEN "Silver"
    ELSE "Default"

TierLimits(user) ==
    IF "Gold" \in GroupsOf(user) THEN valves.gold
    ELSE IF "Silver" \in GroupsOf(user) THEN valves.silver
    ELSE valves.default

BothDone == \A t \in Tasks : tasks[t].pc = "done"

MinuteOneOnly(limits) ==
    /\ limits.requests_per_minute = 1
    /\ limits.requests_per_hour = None
    /\ limits.sliding_window_limit = None

\* C2: two calls for one identity under the policy {requests_per_minute: 1},
\* scheduled at the same instant on an empty history, end with exactly one
\* accepted and one rejected, and one timestamp recorded.
C2_OneOfTwoAccepted ==
    (/\ BothDone
     /\ \A t \in Tasks : Resolved(t) /\ MinuteOneOnly(tasks[t].user_limits)) =>
        /\ Cardinality({t \in Tasks : tasks[t].ret = "body"}) = 1
        /\ Cardinality({t \in Tasks : tasks[t].ret = "Exception"}) = 1
        /\ \A t \in Tasks : Len(Hist(t)) = 1

C2_Witness ==
    /\ BothDone
    /\ \A t \in Tasks : Resolved(t) /\ MinuteOneOnly(tasks[t].user_limits)
    /\ tasks[1].user_id = tasks[2].user_id
    /\ \E t \in Tasks : tasks[t].ret = "Exception" /\ tasks[t].limit_type = "minute"

(***************************************************************************)
(* C3                                                                      *)
(***************************************************************************)
HourOnly(limits) ==
    /\ limits.requests_per_minute = None
    /\ limits.requests_per_hour # None
    /\ limits.sliding_window_limit = None

\* C3: with only requests_per_hour = N configured, a request that finds fewer
\* than N requests of the last 3600 s is accepted (also once older ones have
\* been pruned), and one that finds N is rejected with the dimension "hour".
C3_HourOnlyScenario ==
    \A t \in Tasks :
        (Resolved(t) /\ HourOnly(tasks[t].user_limits)) =>
            /\ Decided(t) =>
                  (tasks[t].pc = "limited"
                      <=> HourSeen(t) >= tasks[t].user_limits.requests_per_hour)
            /\ (tasks[t].pc = "done" /\ tasks[t].limited = "allowed")
                  => tasks[t].ret = "body"
            /\ (tasks[t].pc = "done" /\ tasks[t].limited = "limited")
                  => (tasks[t].ret = "Exception" /\ tasks[t].limit_type = "hour")

(***************************************************************************)
(* C4                                                                      *)
(***************************************************************************)
\* C4: a request whose policy has no threshold at all is never rejected: its
\* evaluation never finds a limit hit and inlet never raises.
C4_UnlimitedNeverRejects ==
    \A t \in Tasks :
        (Resolved(t) /\ AllAbsent(tasks[t].user_limits)) =>
            /\ tasks[t].pc # "limited"
            /\ tasks[t].limited # "limited"
            /\ tasks[t].ret \in {"none", "body"}

\* an unlimited request has been accepted late in the run, for an identity
\* that has a history
C4_Witness ==
    \E t \in Tasks :
        /\ tasks[t].pc = "done"
        /\ ~IsAdmin(tasks[t].user)
        /\ AllAbsent(tasks[t].user_limits)
        /\ tasks[t].ret = "body"
        /\ clock = 3600
        /\ Stored(user_requests) > MaxStored

(***************************************************************************)
(* C5                                                                      *)
(***************************************************************************)
\* C5: a call whose user has the role "admin" returns the body at once and
\* leaves the history map as it was: nothing appended, created or pruned.
C5_AdminBypass ==
    [][\A t \in Tasks :
          (/\ tasks'[t] # tasks[t]
           /\ tasks'[t].user.present
           /\ tasks'[t].user.role = "admin") =>
              /\ tasks'[t].pc = "done"
              /\ tasks'[t].ret = "body"
              /\ user_requests' = user_requests]_vars

\* an admin with id "u1" and group Gold was let through while "u1" had used
\* up the Gold minute limit
C5_Witness ==
    \E t \in Tasks :
        /\ tasks[t].pc = "done"
        /\ tasks[t].user.role = "admin"
        /\ tasks[t].user.id = "u1"
        /\ tasks[t].ret = "body"
        /\ "u1" \in DOMAIN user_requests
        /\ Recent(user_requests["u1"], clock, 60) >= valves.gold.requests_per_minute

(***************************************************************************)
(* C6                                                                      *)
(***************************************************************************)
\* C6: the limits and the group name of every user follow the precedence
\* Gold, then Silver, then default; a missing user, missing or empty groups
\* and unknown labels give the default.
C6_TierPrecedence ==
    /\ \A user \in Users :
          /\ get_user_limits(valves, user) = TierLimits(user)
          /\ get_user_group(user) = TierOf(user)
    /\ \A t \in Tasks :
          /\ Resolved(t) => tasks[t].user_limits = TierLimits(tasks[t].user)
          /\ (tasks[t].pc = "done" /\ tasks[t].limited = "limited")
                => tasks[t].current_group = TierOf(tasks[t].user)

\* a user in both Silver and Gold is being limited by the Gold limits, which
\* differ from the Silver ones
C6_Witness ==
    \E t \in Tasks :
        /\ tasks[t].pc = "done"
        /\ tasks[t].user.groups = {"Silver", "Gold"}
        /\ tasks[t].user_limits = valves.gold
        /\ valves.gold # valves.silver
        /\ tasks[t].limited = "limited"
        /\ tasks[t].current_group = "Gold"

(***************************************************************************)
(* C7                                                                      *)
(***************************************************************************)
\* C7: a second prune_requests for the same user and limits at the same clock
\* value, nothing recorded in between, changes nothing.
C7_PruneIdempotent ==
    [][\A t \in Tasks :
          (tasks[t].pc = "pruned" /\ tasks'[t].pc = "repruned")
              => user_requests' = user_requests]_vars

\* pruned twice, and a stale timestamp was there to be dropped next to one
\* that stays
C7_Witness ==
    \E t \in Tasks :
        /\ tasks[t].pc = "repruned"
        /\ clock = 3600
        /\ tasks[t].user_limits.requests_per_minute # None
        /\ tasks[t].user_limits.requests_per_hour = None
        /\ tasks[t].user_limits.sliding_window_limit = None
        /\ Hist(t) = <<3600>>

(***************************************************************************)
(* C8                                                                      *)
(***************************************************************************)
\* C8: every inlet call ends by returning the body or by raising the
\* rate-limit error; nothing else is raised.
C8_AlwaysDecision ==
    \A t \in Tasks : tasks[t].pc = "done" => tasks[t].ret \in {"body", "Exception"}

(***************************************************************************)
(* C9                                                                      *)
(***************************************************************************)
\* C9 as stated: with a limit of N on a dimension, the request that finds
\* N - 1 recorded requests in the window (the N-th) is rejected.
C9_NthRejected ==
    \A t \in Tasks :
        Decided(t) =>
            /\ (/\ tasks[t].user_limits.requests_per_minute # None
                /\ MinuteSeen(t) = tasks[t].user_limits.requests_per_minute - 1)
                   => tasks[t].pc = "limited"
            /\ (/\ tasks[t].user_limits.requests_per_hour # None
                /\ HourSeen(t) = tasks[t].user_limits.requests_per_hour - 1)
                   => tasks[t].pc = "limited"

\* C9 amended: the comparison is count >= limit on the requests recorded
\* before the current one is added, so with a limit of N the request that
\* finds N recorded in the window (the (N+1)-th) is rejected, and a request
\* that finds at most N - 1 in every configured window (the N-th at most)
\* is not.
C9_CountAtLeastLimit ==
    \A t \in Tasks :
        Decided(t) =>
            /\ (MinuteHit(t) \/ HourHit(t) \/ SlidingHit(t)) => tasks[t].pc = "limited"
            /\ (/\ tasks[t].user_limits.requests_per_minute # None
                      => MinuteSeen(t) <= tasks[t].user_limits.requests_per_minute - 1
                /\ tasks[t].user_limits.requests_per_hour # None
                      => HourSeen(t) <= tasks[t].user_limits.requests_per_hour - 1
                /\ tasks[t].user_limits.sliding_window_limit # None
                      => /\ tasks[t].user_limits.sliding_window_minutes # None
                         /\ SlidingSeen(t) <= tasks[t].user_limits.sliding_window_limit - 1)
                   => tasks[t].pc = "allowed"

\* the second request of an hour under requests_per_hour = 2 was accepted
\* and the third, which finds two, is rejected
C9_Witness ==
    \E t \in Tasks :
        /\ tasks[t].pc = "limited"
        /\ tasks[t].user_limits.requests_per_hour = 2
        /\ tasks[t].user_limits.requests_per_minute = None
        /\ HourSeen(t) = 2
        /\ Len(Hist(t)) = 2

(***************************************************************************)
(* C10                                                                     *)
(***************************************************************************)
\* the first dimension, in the order minute, hour, sliding window, that the
\* evaluation of call t found hit
HitName(t) ==
    IF MinuteHit(t) THEN "minute"
    ELSE IF HourHit(t) THEN "hour"
    ELSE "sliding window (15 minutes)"

\* C10: every request that rate_limited turns down ends in the rate-limit
\* error, whose message names the dimension that was hit and ends in "Please
\* wait until the limit resets." for Gold and in "Upgrade to continue now or
\* wait until the limit resets." for every other tier.
C10_TierMessage ==
    \A t \in Tasks :
        (tasks[t].pc = "done" /\ tasks[t].limited = "limited") =>
            /\ tasks[t].ret = "Exception"
            /\ tasks[t].msg =
                  "Usage limit reached: You've hit your " \o HitName(t) \o
                  (IF "Gold" \in GroupsOf(tasks[t].user)
                   THEN " request limit. Please wait until the limit resets."
                   ELSE " request limit. Upgrade to continue now or wait until the limit resets.")

(***************************************************************************)
(* C11                                                                     *)
(***************************************************************************)
\* C11: rate_limited returns True exactly when a configured dimension is hit:
\* requests_per_minute set and reached by the timestamps of the last 60 s,
\* or requests_per_hour set and reached by those of the last 3600 s, or
\* sliding_window_limit set and reached by those of the last
\* sliding_window_minutes * 60 s.  An absent threshold rejects nothing, and
\* when rate_limited raises instead (limit set without minutes) neither the
\* minute nor the hour dimension was hit.
C11_RejectIffDimensionHit ==
    \A t \in Tasks :
        /\ Decided(t) =>
              (tasks[t].limited = "limited"
                  <=> (MinuteHit(t) \/ HourHit(t) \/ SlidingHit(t)))
        /\ (Resolved(t) /\ tasks[t].limited = "TypeError") =>
              /\ tasks[t].user_limits.sliding_window_limit # None
              /\ tasks[t].user_limits.sliding_window_minutes = None
              /\ ~MinuteHit(t)
              /\ ~HourHit(t)

\* a request is let through although the retained history is as long as the
\* sliding-window limit: the timestamp kept for the hour lies outside the
\* 15 minute window
C11_Witness ==
    \E t \in Tasks :
        /\ tasks[t].pc = "allowed"
        /\ tasks[t].user_limits.sliding_window_limit # None
        /\ tasks[t].user_limits.sliding_window_minutes # None
        /\ Len(Hist(t)) >= tasks[t].user_limits.sliding_window_limit
        /\ SlidingSeen(t) < tasks[t].user_limits.sliding_window_limit

(***************************************************************************)
(* C12                                                                     *)
(***************************************************************************)
\* C12: the reason reported with a rate-limit error is the first dimension,
\* in the order minute, hour, sliding window, that the admission decision
\* found hit; it is never "none" nor a dimension that was not hit.
C12_FirstHitReported ==
    \A t \in Tasks :
        (tasks[t].pc = "done" /\ tasks[t].ret = "Exception") =>
            /\ tasks[t].limit_type = HitName(t)
            /\ tasks[t].limit_type # "none"

(***************************************************************************)
(* C13                                                                     *)
(***************************************************************************)
\* C13: one inlet call works with one clock value: the evaluation reads the
\* value the prune read, and the reason lookup and the recorded timestamp use
\* the value the evaluation read.
C13_OneClockValue ==
    [][\A t \in Tasks :
          /\ (tasks[t].pc = "pruned" /\ tasks'[t] # tasks[t])
                => clock = tasks[t].pruned_at
          /\ (Decided(t) /\ tasks'[t] # tasks[t])
                => clock = tasks[t].now]_vars

(***************************************************************************)
(* C14                                                                     *)
(***************************************************************************)
\* C14 as stated: with no threshold configured prune_requests removes
\* nothing, the history after the prune is the history before it.
C14_NothingPruned ==
    \A t \in Tasks :
        (tasks[t].pc = "pruned" /\ AllAbsent(tasks[t].user_limits))
            => Hist(t) = tasks[t].before

\* C14 amended: with no threshold configured prune_requests removes every
\* timestamp of the identity, so the history is empty after the prune and
\* holds exactly one timestamp after the request is accepted; it does not
\* grow.
C14_EverythingPruned ==
    \A t \in Tasks :
        /\ (tasks[t].pc \in {"pruned", "allowed"} /\ AllAbsent(tasks[t].user_limits))
              => Hist(t) = <<>>
        /\ (/\ tasks[t].pc = "done"
            /\ Resolved(t)
            /\ AllAbsent(tasks[t].user_limits)) => Len(Hist(t)) = 1

\* the prune of an unlimited request has emptied a history that held
\* timestamps
C14_Witness ==
    \E t \in Tasks :
        /\ tasks[t].pc = "pruned"
        /\ AllAbsent(tasks[t].user_limits)
        /\ Len(tasks[t].before) >= 2
        /\ tasks[t].user_id \in DOMAIN user_requests
        /\ Hist(t) = <<>>

(***************************************************************************)
(* C15                                                                     *)
(***************************************************************************)
\* req is within a configured window at time now
StillRelevant(req, limits, now) ==
    \/ limits.requests_per_minute # None /\ now - req < 60
    \/ limits.requests_per_hour # None /\ now - req < 3600
    \/ /\ limits.sliding_window_limit # None
       /\ limits.sliding_window_minutes # None
       /\ now - req < limits.sliding_window_minutes * 60

\* C15: right after a prune_requests that ran with at least one threshold
\* configured, the history is the previous history restricted, in order, to
\* the timestamps within a configured window at the time of the prune.
C15_PruneKeepsRelevant ==
    \A t \in Tasks :
        (tasks[t].pc \in {"pruned", "repruned"} /\ ~AllAbsent(tasks[t].user_limits)) =>
            Hist(t) = SelectSeq(tasks[t].before,
                                LAMBDA req : StillRelevant(req, tasks[t].user_limits,
                                                           tasks[t].pruned_at))

\* under a sliding-window-only policy the prune at t = 900 dropped the
\* timestamp 0 and kept the timestamp 1
C15_Witness ==
    \E t \in Tasks :
        /\ tasks[t].pc = "pruned"
        /\ tasks[t].user_limits.requests_per_minute = None
        /\ tasks[t].user_limits.requests_per_hour = None
        /\ tasks[t].user_limits.sliding_window_limit # None
        /\ tasks[t].pruned_at = 900
        /\ tasks[t].before = <<0, 1>>
        /\ Hist(t) = <<1>>

(***************************************************************************)
(* C16                                                                     *)
(***************************************************************************)
\* C16: after the prune, a call changes the history map only by appending
\* the current time to its identity's history, once, when it returns the
\* body, which it does only when rate_limited allowed it; a call that raises
\* leaves the pruned history as it is.
C16_RecordOnlyWhenAllowed ==
    [][\A t \in Tasks :
          (InBody(t) /\ tasks'[t] # tasks[t]) =>
              IF tasks'[t].ret = "body"
              THEN /\ tasks[t].limited = "allowed"
                   /\ DOMAIN user_requests' = DOMAIN user_requests \cup {tasks[t].user_id}
                   /\ \A k \in DOMAIN user_requests' :
                         user_requests'[k] =
                             IF k = tasks[t].user_id
                             THEN Append(Hist(t), clock)
                             ELSE user_requests[k]
              ELSE user_requests' = user_requests]_vars

\* a request was turned down with the rate-limit error and the history is
\* the pruned one, one timestamp short of nothing
C16_Witness ==
    \E t \in Tasks :
        /\ tasks[t].pc = "done"
        /\ tasks[t].ret = "Exception"
        /\ Len(tasks[t].before) = 2
        /\ Hist(t) = tasks[t].before

(***************************************************************************)
(* C17                                                                     *)
(***************************************************************************)
\* what the thresholds say about one history at one time
OwnDecision(h, limits, now) ==
    IF \/ /\ limits.requests_per_minute # None
          /\ Recent(h, now, 60) >= limits.requests_per_minute
       \/ /\ limits.requests_per_hour # None
          /\ Recent(h, now, 3600) >= limits.requests_per_hour
       \/ /\ limits.sliding_window_limit # None
          /\ limits.sliding_window_minutes # None
          /\ Recent(h, now, limits.sliding_window_minutes * 60)
                 >= limits.sliding_window_limit
    THEN "limited"
    ELSE "allowed"

OthersUntouched ==
    \A t \in Tasks :
        (tasks'[t] # tasks[t] /\ tasks'[t].pc # "idle") =>
            \A k \in Keys \ {UserId(tasks'[t].user)} :
                /\ k \in DOMAIN user_requests' <=> k \in DOMAIN user_requests
                /\ History(user_requests', k) = History(user_requests, k)

\* C17: no step of a call changes the history stored under another key, and
\* the decision of a call is a function of its own identity's history, its
\* limits and the clock value read.
C17_IdentitiesIndependent ==
    /\ [](\A t \in Tasks :
            Decided(t) => tasks[t].limited =
                              OwnDecision(Hist(t), tasks[t].user_limits, tasks[t].now))
    /\ [][OthersUntouched]_vars

\* a request of "u1" went through prune and record while "default_user"
\* keeps a timestamp that is an hour old
C17_Witness ==
    \E t \in Tasks :
        /\ tasks[t].pc = "done"
        /\ tasks[t].user_id = "u1"
        /\ tasks[t].ret = "body"
        /\ tasks[t].before # <<>>
        /\ "default_user" \in DOMAIN user_requests
        /\ \E i \in 1..Len(user_requests["default_user"]) :
              clock - user_requests["default_user"][i] >= 3600

(***************************************************************************)
(* C18                                                                     *)
(***************************************************************************)
\* C18: every history is non-decreasing in insertion order and holds no
\* timestamp later than the current time.
C18_HistoriesOrdered ==
    \A k \in DOMAIN user_requests :
        \A i \in 1..Len(user_requests[k]) :
            /\ user_requests[k][i] <= clock
            /\ i < Len(user_requests[k]) => user_requests[k][i] <= user_requests[k][i + 1]

\* a history holds two timestamps of different times
C18_Witness ==
    \E k \in DOMAIN user_requests :
        /\ Len(user_requests[k]) >= 2
        /\ user_requests[k][1] < user_requests[k][2]
        /\ user_requests[k][2] < clock

(***************************************************************************)
(* C19                                                                     *)
(***************************************************************************)
\* the limit of the configured dimension with the longest window: the hour,
\* then the sliding window of 15 minutes, then the minute
LongestLimit(limits) ==
    IF limits.requests_per_hour # None THEN limits.requests_per_hour
    ELSE IF limits.sliding_window_limit # None THEN limits.sliding_window_limit
    ELSE limits.requests_per_minute

\* C19 as stated: when every call is evaluated under one policy with a
\* threshold configured, no history holds more timestamps than the limit of
\* the configured dimension with the longest window.
C19_HistoryBounded ==
    ~AllAbsent(valves.default) =>
        \A k \in DOMAIN user_requests :
            Len(user_requests[k]) <= LongestLimit(valves.default)

(***************************************************************************)
(* C20                                                                     *)
(***************************************************************************)
\* prune_requests raised in this call
PruneRaised(t) ==
    /\ tasks[t].pc = "done"
    /\ tasks[t].ret = "TypeError"
    /\ tasks[t].limited = "unset"

\* the call evaluated at the clock value it pruned at, and what it decided
\* is what the thresholds give on the history as it was before the prune
SameOnUnpruned(t) ==
    (Decided(t) /\ tasks[t].now = tasks[t].pruned_at) =>
        tasks[t].limited = Evaluate(tasks[t].before, tasks[t].user_limits, tasks[t].now)

\* C20 as stated: at one clock value the result of rate_limited, prune then
\* evaluate, is the result of evaluating the same thresholds on the unpruned
\* history, for every history, policy and clock value.
C20_PruneKeepsDecision ==
    \A t \in Tasks :
        /\ SameOnUnpruned(t)
        /\ PruneRaised(t) =>
              Evaluate(tasks[t].before, tasks[t].user_limits, tasks[t].pruned_at) = "TypeError"

TypeOK ==
    /\ valves \in ValvesSet
    /\ clock \in Instants
    /\ DOMAIN user_requests \subseteq Keys
====
